---- MODULE Spec2Model ----
(***************************************************************************)
(* Account lifecycle of the wynngrid backend: the auth router             *)
(* (signup, verify-otp, login, forgot-password, reset-password,           *)
(* delete-account, logout, google-signup) over the Prisma user store,     *)
(* the mail transport and the Google token verifier.                      *)
(*                                                                         *)
(* Every handler is an async function.  One action of the model is the    *)
(* code that runs between two awaits: the awaited collaborator call takes *)
(* effect and the continuation runs up to the next await.  Handlers of    *)
(* different requests interleave at these points.                          *)
(***************************************************************************)
EXTENDS Integers, Sequences, FiniteSets, TLC

(***************************************************************************)
(* Bounds of the model.                                                    *)
(***************************************************************************)
MaxId == 2
MaxTicks == 2
MaxProjects == 1
MaxAverages == 1

(***************************************************************************)
(* Strings are sequences of one-character strings, so that the regular    *)
(* expression, split and join below work on the characters.                *)
(***************************************************************************)
Lower == {"a","b","c","d","e","f","g","h","i","j","k","l","m",
          "n","o","p","q","r","s","t","u","v","w","x","y","z"}
Upper == {"A","B","C","D","E","F","G","H","I","J","K","L","M",
          "N","O","P","Q","R","S","T","U","V","W","X","Y","Z"}
Digit == {"0","1","2","3","4","5","6","7","8","9"}
Symbol == {"@","$","!","%","*","?","&"}

Range(s) == {s[i] : i \in DOMAIN s}

MinLength == 6

\* the same expression without its {6,} quantifier
validatePasswordAnyLength(password) ==
    /\ Range(password) \cap Lower # {}
    /\ Range(password) \cap Upper # {}
    /\ Range(password) \cap Digit # {}
    /\ Range(password) \cap Symbol # {}
    /\ Range(password) \subseteq (Lower \cup Upper \cup Digit \cup Symbol)

\* the same expression with . in place of its character class
validatePasswordAnyCharacter(password) ==
    /\ Range(password) \cap Lower # {}
    /\ Range(password) \cap Upper # {}
    /\ Range(password) \cap Digit # {}
    /\ Range(password) \cap Symbol # {}
    /\ Len(password) >= MinLength

validatePassword(password) ==
    /\ Range(password) \cap Lower # {}
    /\ Range(password) \cap Upper # {}
    /\ Range(password) \cap Digit # {}
    /\ Range(password) \cap Symbol # {}
    /\ Range(password) \subseteq (Lower \cup Upper \cup Digit \cup Symbol)
    /\ Len(password) >= MinLength

(***************************************************************************)
(* String.prototype.split with a one-character separator, and             *)
(* Array.prototype.join.                                                   *)
(***************************************************************************)
RECURSIVE SplitFrom(_, _, _, _)
SplitFrom(s, sep, i, cur) ==
    IF i > Len(s) THEN <<cur>>
    ELSE IF s[i] = sep THEN <<cur>> \o SplitFrom(s, sep, i + 1, <<>>)
    ELSE SplitFrom(s, sep, i + 1, Append(cur, s[i]))

Split(s, sep) == SplitFrom(s, sep, 1, <<>>)

RECURSIVE Join(_, _)
Join(parts, sep) ==
    IF Len(parts) = 0 THEN <<>>
    ELSE IF Len(parts) = 1 THEN parts[1]
    ELSE parts[1] \o <<sep>> \o Join(Tail(parts), sep)

(***************************************************************************)
(* Number.prototype.toString for a non-negative integer.                   *)
(***************************************************************************)
DigitChar(d) == <<"0","1","2","3","4","5","6","7","8","9">>[d + 1]

RECURSIVE NumToString(_)
NumToString(n) ==
    IF n < 10 THEN <<DigitChar(n)>>
    ELSE Append(NumToString(n \div 10), DigitChar(n % 10))

(***************************************************************************)
(* JavaScript values of the otp column and of the otp request field:      *)
(* null or a string.  Dates: null or a number of milliseconds.             *)
(***************************************************************************)
JsNull == [isNull |-> TRUE, s |-> <<>>]
JsStr(s) == [isNull |-> FALSE, s |-> s]
DateNull == [isNull |-> TRUE, ms |-> 0]
DateOf(ms) == [isNull |-> FALSE, ms |-> ms]
\* relational comparison converts null to 0
ToNumber(d) == IF d.isNull THEN 0 ELSE d.ms

(***************************************************************************)
(* bcryptjs: hash(password, 10) and compare(password, hash).  A stored    *)
(* value that is not a bcrypt hash (the '' of Google users) matches        *)
(* nothing.                                                                *)
(***************************************************************************)
BcryptPrefix == <<"$","2","a","$","1","0","$">>
bcryptHash(password) == BcryptPrefix \o password
IsHash(h) == Len(h) >= Len(BcryptPrefix) /\ SubSeq(h, 1, Len(BcryptPrefix)) = BcryptPrefix
\* a comparison that falls back to equality for a value that is not a hash
bcryptCompareOrEqual(password, hash) ==
    IF IsHash(hash) THEN hash = bcryptHash(password) ELSE hash = password

bcryptCompare(password, hash) == IsHash(hash) /\ hash = bcryptHash(password)

(***************************************************************************)
(* Inputs.                                                                 *)
(***************************************************************************)
EmailA == <<"a","n","n","@","x",".","i","o">>
Emails == {EmailA}

PwGood == <<"A","b","c","1","2","3","!">>
PwOther == <<"X","y","z","7","8","9","?">>
PwNoUpper == <<"a","b","c","1","2","3","!">>
PwShort == <<"A","b","1","!">>
PwEmpty == <<>>
\* PwGood followed by a character outside the class of the expression
PwForeign == <<"A","b","c","1","2","3","!","#">>
Passwords == {PwGood, PwOther, PwNoUpper, PwShort, PwEmpty, PwForeign}

NameA == <<"A">>
NameB == <<"B">>

\* Math.floor(Math.random() * 900000) ranges over 0 .. 899999
RandomDraws == {0, 899999}
OtpBase == 100000
\* Math.floor(Math.random() * 1000000): the draw without its base
GenerateOtpFromZero(r) == JsStr(NumToString(r))

GenerateOtp(r) == JsStr(NumToString(OtpBase + r))

SubmittedOtps == {JsNull, JsStr(NumToString(100000)), JsStr(NumToString(999999))}

OtpTtlMs == 10 * 60 * 1000
TickMs == OtpTtlMs

VARIABLES users, profiles, projects, projectAverages, now, requests, nextId, reply

tables == <<users, profiles, projects, projectAverages>>
vars == <<users, profiles, projects, projectAverages, now, requests, nextId, reply>>

Slots == 1 .. 2

(***************************************************************************)
(* Rows, tokens and responses.                                             *)
(***************************************************************************)
NoRow == [id |-> 0, email |-> <<>>, firstName |-> <<>>, lastName |-> <<>>,
          password |-> <<>>, isVerified |-> FALSE, otp |-> JsNull,
          otpExpiry |-> DateNull]

\* the fields of a looked-up row that the handler keeps: those its
\* continuation reads; forgot-password also keeps the pending code it overwrites
Live(u, fields) == [f \in DOMAIN u |-> IF f \in fields THEN u[f] ELSE NoRow[f]]

\* rows deleted inside a transaction that has not committed
NoTx == [projectAverages |-> {}, projects |-> {}, profiles |-> {}]

NoToken == [userId |-> 0, expiresIn |-> ""]
jwtSign(userId, expiresIn) == [userId |-> userId, expiresIn |-> expiresIn]

NoIdent == [id |-> 0, email |-> <<>>, firstName |-> <<>>, lastName |-> <<>>]
Ident(u) == [id |-> u.id, email |-> u.email, firstName |-> u.firstName,
             lastName |-> u.lastName]

Res(status, message) ==
    [status |-> status, message |-> message, error |-> "",
     token |-> NoToken, user |-> NoIdent]
ResToken(status, message, token) ==
    [Res(status, message) EXCEPT !.token = token]
ResError(message, error) ==
    [Res(500, message) EXCEPT !.error = error]
NoRes == Res(0, "")

PasswordPolicyMessage == "Password must be at least 6 characters long and include at least one uppercase letter, one lowercase letter, one special character, and one number."

Idle == [op |-> "none", pc |-> "idle", email |-> <<>>, firstName |-> <<>>,
         lastName |-> <<>>, password |-> <<>>, otp |-> JsNull,
         token |-> "", user |-> NoRow, profileId |-> 0,
         genOtp |-> JsNull, genExpiry |-> DateNull, tx |-> NoTx]

NoReply == [req |-> Idle, res |-> NoRes]

\* a request is taken by the first handler slot that is free
Free(s) ==
    /\ reply = NoReply
    /\ requests[s].pc = "idle"
    /\ \A t \in Slots : t < s => requests[t].pc # "idle"

(***************************************************************************)
(* prisma.user                                                             *)
(***************************************************************************)
findUnique(email) ==
    IF \E u \in users : u.email = email
    THEN CHOOSE u \in users : u.email = email
    ELSE NoRow

Init ==
    /\ users = {}
    /\ profiles = {}
    /\ projects = {}
    /\ projectAverages = {}
    /\ now = TickMs
    /\ requests = [s \in Slots |-> Idle]
    /\ nextId = 1
    /\ reply = NoReply

Tick ==
    /\ reply = NoReply
    /\ now < (MaxTicks + 1) * TickMs
    /\ now' = now + TickMs
    /\ UNCHANGED <<tables, requests, nextId, reply>>

\* the response leaves the process
Respond ==
    /\ reply # NoReply
    /\ reply' = NoReply
    /\ UNCHANGED <<tables, now, requests, nextId>>

(***************************************************************************)
(* A request that will create a user needs a fresh id from the store; the *)
(* model admits it only while one is left.                                 *)
(***************************************************************************)
Creating == {s \in Slots : requests[s].op \in {"signup", "google-signup"}}
IdLeft == nextId + Cardinality(Creating) <= MaxId

Goto(s, r) ==
    /\ requests' = [requests EXCEPT ![s] = r]
    /\ reply' = reply

\* res.status(..).json(..): the handler ends and its response is on the wire
Reply(s, r, resp) ==
    /\ requests' = [requests EXCEPT ![s] = Idle]
    /\ reply' = [req |-> r, res |-> resp]

At(s, op, pc) ==
    /\ reply = NoReply
    /\ requests[s].op = op
    /\ requests[s].pc = pc

(***************************************************************************)
(* The first action of a handler is the arrival of the request: the code  *)
(* up to its first query and the continuation of that query.  bcrypt.hash *)
(* and bcrypt.compare read and write nothing but the handler's locals, so *)
(* their await is part of the action that precedes it.                     *)
(***************************************************************************)

(***************************************************************************)
(* POST /signup                                                            *)
(***************************************************************************)
SignupRow(id, r) ==
    [id |-> id, email |-> r.email, firstName |-> r.firstName,
     lastName |-> r.lastName, password |-> bcryptHash(r.password),
     isVerified |-> FALSE, otp |-> r.genOtp, otpExpiry |-> r.genExpiry]

Signup(s) ==
    /\ Free(s)
    /\ IdLeft
    /\ \E email \in Emails, password \in Passwords :
         LET r == [Idle EXCEPT !.op = "signup", !.email = email,
                               !.firstName = NameA, !.lastName = NameB,
                               !.password = password]
             existingUser == findUnique(email)
         IN  IF ~validatePassword(password)
             THEN Reply(s, r, Res(400, PasswordPolicyMessage))
             ELSE IF existingUser # NoRow
             THEN Reply(s, [r EXCEPT !.user = existingUser],
                        Res(400, "Email already registered"))
             ELSE \E rnd \in RandomDraws :
                    Goto(s, [r EXCEPT !.pc = "create",
                                      !.genOtp = GenerateOtp(rnd),
                                      !.genExpiry = DateOf(now + OtpTtlMs)])
    /\ UNCHANGED <<tables, now, nextId>>

SignupCreate(s) ==
    /\ At(s, "signup", "create")
    /\ LET r == requests[s]
       IN  IF findUnique(r.email) # NoRow
           THEN /\ Reply(s, r, ResError("Error creating user", "P2002"))
                /\ UNCHANGED <<users, nextId>>
           ELSE /\ users' = users \cup {SignupRow(nextId, r)}
                /\ nextId' = nextId + 1
                /\ Goto(s, [r EXCEPT !.pc = "sendEmail"])
    /\ UNCHANGED <<profiles, projects, projectAverages, now>>

\* a handler that deletes the row it created when the mail fails
SignupSendRollsBack(s) ==
    /\ At(s, "signup", "sendEmail")
    /\ LET r == requests[s]
       IN  \/ /\ Reply(s, r, Res(201, "User created. Please verify your email."))
              /\ UNCHANGED tables
           \/ /\ Reply(s, r, ResError("Error creating user", "SMTP"))
              /\ users' = {u \in users : u.email # r.email}
              /\ UNCHANGED <<profiles, projects, projectAverages>>
    /\ UNCHANGED <<now, nextId>>

SignupSend(s) ==
    /\ At(s, "signup", "sendEmail")
    /\ LET r == requests[s]
       IN  \/ Reply(s, r, Res(201, "User created. Please verify your email."))
           \/ Reply(s, r, ResError("Error creating user", "SMTP"))
    /\ UNCHANGED <<tables, now, nextId>>

(***************************************************************************)
(* POST /verify-otp                                                        *)
(***************************************************************************)
\* the check without its expiry half
OtpRejectedIgnoresExpiry(user, otp, t) == user.otp # otp

OtpRejected(user, otp, t) == user.otp # otp \/ t > ToNumber(user.otpExpiry)

\* the update without isVerified
VerifyOtpDataKeepsFlag(u) ==
    [u EXCEPT !.otp = JsNull, !.otpExpiry = DateNull]

VerifyOtpData(u) ==
    [u EXCEPT !.isVerified = TRUE, !.otp = JsNull, !.otpExpiry = DateNull]

VerifyOtp(s) ==
    /\ Free(s)
    /\ \E email \in Emails, otp \in SubmittedOtps :
         LET r == [Idle EXCEPT !.op = "verify-otp", !.email = email, !.otp = otp]
             user == findUnique(email)
         IN  IF user = NoRow
             THEN Reply(s, r, Res(404, "User not found"))
             ELSE IF OtpRejected(user, otp, now)
             THEN Reply(s, [r EXCEPT !.user = user],
                        Res(400, "Invalid or expired OTP"))
             ELSE Goto(s, [r EXCEPT !.pc = "update", !.user = Live(user, {"id"})])
    /\ UNCHANGED <<tables, now, nextId>>

VerifyOtpUpdate(s) ==
    /\ At(s, "verify-otp", "update")
    /\ LET r == requests[s]
           row == findUnique(r.email)
       IN  IF row = NoRow
           THEN /\ Reply(s, r, ResError("Error verifying OTP", "P2025"))
                /\ UNCHANGED users
           ELSE /\ users' = (users \ {row}) \cup {VerifyOtpData(row)}
                /\ Reply(s, r, ResToken(200, "Email verified successfully",
                                        jwtSign(r.user.id, "240h")))
    /\ UNCHANGED <<profiles, projects, projectAverages, now, nextId>>

(***************************************************************************)
(* POST /login                                                             *)
(***************************************************************************)
\* the handler without its isVerified test
LoginResultUngated(user, password) ==
    IF user = NoRow THEN Res(404, "User not found")
    ELSE IF ~bcryptCompare(password, user.password)
    THEN Res(400, "Invalid password")
    ELSE ResToken(200, "", jwtSign(user.id, "240h"))

LoginResult(user, password) ==
    IF user = NoRow THEN Res(404, "User not found")
    ELSE IF ~user.isVerified THEN Res(400, "Please verify your email first")
    ELSE IF ~bcryptCompare(password, user.password)
    THEN Res(400, "Invalid password")
    ELSE ResToken(200, "", jwtSign(user.id, "240h"))

Login(s) ==
    /\ Free(s)
    /\ \E email \in Emails, password \in Passwords :
         LET r == [Idle EXCEPT !.op = "login", !.email = email,
                               !.password = password]
             user == findUnique(email)
         IN  Reply(s, [r EXCEPT !.user = user], LoginResult(user, password))
    /\ UNCHANGED <<tables, now, nextId>>

(***************************************************************************)
(* POST /forgot-password                                                   *)
(***************************************************************************)
\* the update without otpExpiry
ForgotPasswordDataOtpOnly(u, otp, otpExpiry) ==
    [u EXCEPT !.otp = otp]

\* the update that keeps a code that is still pending
ForgotPasswordDataKeepsPending(u, otp, otpExpiry) ==
    IF u.otp.isNull THEN [u EXCEPT !.otp = otp, !.otpExpiry = otpExpiry] ELSE u

ForgotPasswordData(u, otp, otpExpiry) ==
    [u EXCEPT !.otp = otp, !.otpExpiry = otpExpiry]

ForgotPassword(s) ==
    /\ Free(s)
    /\ \E email \in Emails :
         LET r == [Idle EXCEPT !.op = "forgot-password", !.email = email]
             user == findUnique(email)
         IN  IF user = NoRow
             THEN Reply(s, r, Res(404, "User not found"))
             ELSE \E rnd \in RandomDraws :
                    Goto(s, [r EXCEPT !.pc = "update",
                                      !.user = Live(user, {"id", "otp", "otpExpiry"}),
                                      !.genOtp = GenerateOtp(rnd),
                                      !.genExpiry = DateOf(now + OtpTtlMs)])
    /\ UNCHANGED <<tables, now, nextId>>

ForgotPasswordUpdate(s) ==
    /\ At(s, "forgot-password", "update")
    /\ LET r == requests[s]
           row == findUnique(r.email)
       IN  IF row = NoRow
           THEN /\ Reply(s, r, ResError("Error processing request", "P2025"))
                /\ UNCHANGED users
           ELSE /\ users' = (users \ {row})
                              \cup {ForgotPasswordData(row, r.genOtp, r.genExpiry)}
                /\ Goto(s, [r EXCEPT !.pc = "sendEmail"])
    /\ UNCHANGED <<profiles, projects, projectAverages, now, nextId>>

ForgotPasswordSend(s) ==
    /\ At(s, "forgot-password", "sendEmail")
    /\ LET r == requests[s]
       IN  \/ Reply(s, r, Res(200, "Password reset OTP sent to email"))
           \/ Reply(s, r, ResError("Error processing request", "SMTP"))
    /\ UNCHANGED <<tables, now, nextId>>

(***************************************************************************)
(* POST /reset-password                                                    *)
(***************************************************************************)
\* the update that also marks the account verified
ResetPasswordDataVerifies(u, hashedPassword) ==
    [u EXCEPT !.password = hashedPassword, !.isVerified = TRUE,
              !.otp = JsNull, !.otpExpiry = DateNull]

ResetPasswordData(u, hashedPassword) ==
    [u EXCEPT !.password = hashedPassword, !.otp = JsNull, !.otpExpiry = DateNull]

ResetPassword(s) ==
    /\ Free(s)
    /\ \E email \in Emails, otp \in SubmittedOtps, newPassword \in Passwords :
         LET r == [Idle EXCEPT !.op = "reset-password", !.email = email,
                               !.otp = otp, !.password = newPassword]
             user == findUnique(email)
         IN  IF ~validatePassword(newPassword)
             THEN Reply(s, r, Res(400, PasswordPolicyMessage))
             ELSE IF user = NoRow
             THEN Reply(s, r, Res(404, "User not found"))
             ELSE IF OtpRejected(user, otp, now)
             THEN Reply(s, [r EXCEPT !.user = user],
                        Res(400, "Invalid or expired OTP"))
             ELSE Goto(s, [r EXCEPT !.pc = "update"])
    /\ UNCHANGED <<tables, now, nextId>>

ResetPasswordUpdate(s) ==
    /\ At(s, "reset-password", "update")
    /\ LET r == requests[s]
           row == findUnique(r.email)
       IN  IF row = NoRow
           THEN /\ Reply(s, r, ResError("Error resetting password", "P2025"))
                /\ UNCHANGED users
           ELSE /\ users' = (users \ {row})
                              \cup {ResetPasswordData(row, bcryptHash(r.password))}
                /\ Reply(s, r, Res(200, "Password reset successfully"))
    /\ UNCHANGED <<profiles, projects, projectAverages, now, nextId>>

(***************************************************************************)
(* DELETE /delete-account                                                  *)
(*                                                                         *)
(* The four deletes run inside prisma.$transaction: they are staged in the *)
(* handler's transaction and reach the tables when the callback returns.   *)
(* A delete that throws rolls the transaction back.                        *)
(***************************************************************************)
\* the same delete issued on the global client, outside the transaction
TxDeleteAutocommit(table, pending, ids) ==
    [table |-> {x \in table : x.id \notin ids}, pending |-> pending]

TxDelete(table, pending, ids) ==
    [table |-> table, pending |-> pending \cup ids]

\* the rows of a table that the transaction still sees
Visible(table, pending) == {x \in table : x.id \notin pending}

ProfileOf(userId) ==
    IF \E p \in profiles : p.userId = userId
    THEN (CHOOSE p \in profiles : p.userId = userId).id
    ELSE 0

DeleteAccount(s) ==
    /\ Free(s)
    /\ \E email \in Emails, password \in Passwords :
         LET r == [Idle EXCEPT !.op = "delete-account", !.email = email,
                               !.password = password]
             user == findUnique(email)
         IN  IF user = NoRow
             THEN Reply(s, r, Res(404, "User not found"))
             ELSE IF ~bcryptCompare(password, user.password)
             THEN Reply(s, [r EXCEPT !.user = user], Res(400, "Invalid password"))
             ELSE Goto(s, [r EXCEPT !.user = Live(user, {"id"}),
                                    !.profileId = ProfileOf(user.id),
                                    !.pc = IF ProfileOf(user.id) # 0
                                           THEN "tx.projectAverage.deleteMany"
                                           ELSE "tx.project.deleteMany"])
    /\ UNCHANGED <<tables, now, nextId>>

DeleteProjectAverages(s) ==
    /\ At(s, "delete-account", "tx.projectAverage.deleteMany")
    /\ LET r == requests[s]
           ids == {a.id : a \in {x \in Visible(projectAverages, r.tx.projectAverages) :
                                   x.profileId = r.profileId}}
           w == TxDelete(projectAverages, r.tx.projectAverages, ids)
       IN  /\ projectAverages' = w.table
           /\ Goto(s, [r EXCEPT !.pc = "tx.project.deleteMany",
                                !.tx.projectAverages = w.pending])
    /\ UNCHANGED <<users, profiles, projects, now, nextId>>

DeleteProjects(s) ==
    /\ At(s, "delete-account", "tx.project.deleteMany")
    /\ LET r == requests[s]
           ids == {a.id : a \in {x \in Visible(projects, r.tx.projects) :
                                   x.userId = r.user.id}}
           w == TxDelete(projects, r.tx.projects, ids)
       IN  /\ projects' = w.table
           /\ Goto(s, [r EXCEPT !.pc = IF r.profileId # 0 THEN "tx.profile.delete"
                                                         ELSE "tx.user.delete",
                                !.tx.projects = w.pending])
    /\ UNCHANGED <<users, profiles, projectAverages, now, nextId>>

DeleteProfile(s) ==
    /\ At(s, "delete-account", "tx.profile.delete")
    /\ LET r == requests[s]
           ids == {a.id : a \in {x \in Visible(profiles, r.tx.profiles) :
                                   x.userId = r.user.id}}
           w == TxDelete(profiles, r.tx.profiles, ids)
       IN  IF ids = {}
           THEN /\ Reply(s, r, ResError("Error deleting account", "P2025"))
                /\ UNCHANGED profiles
           ELSE IF \E a \in Visible(projectAverages, r.tx.projectAverages) :
                     a.profileId \in ids
           THEN /\ Reply(s, r, ResError("Error deleting account", "P2003"))
                /\ UNCHANGED profiles
           ELSE /\ profiles' = w.table
                /\ Goto(s, [r EXCEPT !.pc = "tx.user.delete",
                                     !.tx.profiles = w.pending])
    /\ UNCHANGED <<users, projects, projectAverages, now, nextId>>

DeleteUser(s) ==
    /\ At(s, "delete-account", "tx.user.delete")
    /\ LET r == requests[s]
       IN  IF ~\E u \in users : u.id = r.user.id
           THEN /\ Reply(s, r, ResError("Error deleting account", "P2025"))
                /\ UNCHANGED tables
           ELSE IF \/ \E x \in Visible(profiles, r.tx.profiles) : x.userId = r.user.id
                   \/ \E x \in Visible(projects, r.tx.projects) : x.userId = r.user.id
           THEN /\ Reply(s, r, ResError("Error deleting account", "P2003"))
                /\ UNCHANGED tables
           ELSE /\ users' = {u \in users : u.id # r.user.id}
                /\ profiles' = Visible(profiles, r.tx.profiles)
                /\ projects' = Visible(projects, r.tx.projects)
                /\ projectAverages' = Visible(projectAverages, r.tx.projectAverages)
                /\ Reply(s, r, Res(200, "Account deleted successfully"))
    /\ UNCHANGED <<now, nextId>>

(***************************************************************************)
(* POST /logout                                                            *)
(***************************************************************************)
Logout(s) ==
    /\ Free(s)
    /\ \E token \in {"", "jwt"} :
         LET r == [Idle EXCEPT !.op = "logout", !.token = token]
         IN  IF token = ""
             THEN Reply(s, r, Res(400, "Token is required for logout"))
             ELSE Reply(s, r, Res(200, "Logged out successfully"))
    /\ UNCHANGED <<tables, now, nextId>>

(***************************************************************************)
(* POST /google-signup                                                     *)
(***************************************************************************)
NameAnn == <<"A","n","n">>
NameLee == <<"L","e","e">>
NameFull == <<"A","n","n"," ","L","e","e"," ","K","i","m">>

Payload(email, name, given_name, family_name) ==
    [email |-> email, name |-> name, given_name |-> given_name,
     family_name |-> family_name]

\* what ticket.getPayload() can hold for a token that verifies
Payloads ==
    {Payload(e, NameFull, NameAnn, NameLee) : e \in Emails}
      \cup {Payload(e, NameFull, <<>>, <<>>) : e \in Emails}
      \cup {Payload(e, <<>>, <<>>, <<>>) : e \in Emails}
      \cup {Payload(<<>>, NameFull, NameAnn, NameLee)}

GoogleFirstName(payload) ==
    IF payload.given_name # <<>> /\ payload.family_name # <<>>
    THEN payload.given_name
    ELSE IF payload.name # <<>>
    THEN Split(payload.name, " ")[1]
    ELSE Split(payload.email, "@")[1]

GoogleLastName(payload) ==
    IF payload.given_name # <<>> /\ payload.family_name # <<>>
    THEN payload.family_name
    ELSE IF payload.name # <<>>
    THEN Join(Tail(Split(payload.name, " ")), " ")
    ELSE <<>>

GoogleRow(id, r) ==
    [id |-> id, email |-> r.email, firstName |-> r.firstName,
     lastName |-> r.lastName, password |-> <<>>, isVerified |-> TRUE,
     otp |-> JsNull, otpExpiry |-> DateNull]

GoogleSignup(s) ==
    /\ Free(s)
    /\ IdLeft
    /\ LET r == [Idle EXCEPT !.op = "google-signup", !.token = "idToken"]
       IN  \/ Reply(s, r, ResError("Error during Google signup", "verifyIdToken"))
           \/ \E payload \in Payloads :
                IF payload.email = <<>>
                THEN Reply(s, r, Res(400, "Invalid Google token or missing email"))
                ELSE Goto(s, [r EXCEPT !.pc = "findUnique",
                                       !.email = payload.email,
                                       !.firstName = GoogleFirstName(payload),
                                       !.lastName = GoogleLastName(payload)])
    /\ UNCHANGED <<tables, now, nextId>>

\* an answer built from the Google payload instead of the stored row
GoogleExistingFromPayload(user, r) ==
    [Res(200, "User already exists") EXCEPT
       !.token = jwtSign(user.id, "24h"),
       !.user = [id |-> user.id, email |-> r.email, firstName |-> r.firstName,
                 lastName |-> r.lastName]]

GoogleExisting(user, r) ==
    [Res(200, "User already exists") EXCEPT
       !.token = jwtSign(user.id, "24h"),
       !.user = Ident(user)]

GoogleSignupFind(s) ==
    /\ At(s, "google-signup", "findUnique")
    /\ LET r == requests[s]
           user == findUnique(r.email)
       IN  IF user # NoRow
           THEN Reply(s, [r EXCEPT !.user = user], GoogleExisting(user, r))
           ELSE Goto(s, [r EXCEPT !.pc = "create"])
    /\ UNCHANGED <<tables, now, nextId>>

GoogleSignupCreate(s) ==
    /\ At(s, "google-signup", "create")
    /\ LET r == requests[s]
           user == GoogleRow(nextId, r)
       IN  IF findUnique(r.email) # NoRow
           THEN /\ Reply(s, r, ResError("Error during Google signup", "P2002"))
                /\ UNCHANGED <<users, nextId>>
           ELSE /\ users' = users \cup {user}
                /\ nextId' = nextId + 1
                /\ Reply(s, [r EXCEPT !.user = user],
                         [Res(201, "User created successfully") EXCEPT
                            !.token = jwtSign(user.id, "24h"),
                            !.user = Ident(user)])
    /\ UNCHANGED <<profiles, projects, projectAverages, now>>

(***************************************************************************)
(* A query that the database cannot serve rejects, and the handler's      *)
(* catch block answers 500.  Inside the transaction this is a rollback.    *)
(***************************************************************************)
ErrorMessage(op) ==
    CASE op = "signup" -> "Error creating user"
      [] op = "verify-otp" -> "Error verifying OTP"
      [] op = "login" -> "Error logging in"
      [] op = "forgot-password" -> "Error processing request"
      [] op = "reset-password" -> "Error resetting password"
      [] op = "delete-account" -> "Error deleting account"
      [] op = "google-signup" -> "Error during Google signup"
      [] OTHER -> "Error logging out"

QueryPcs == {"findUnique", "create", "update", "tx.projectAverage.deleteMany",
             "tx.project.deleteMany", "tx.profile.delete", "tx.user.delete"}

StorageFault(s) ==
    /\ reply = NoReply
    /\ requests[s].pc \in QueryPcs
    /\ Reply(s, requests[s], ResError(ErrorMessage(requests[s].op), "DB"))
    /\ UNCHANGED <<tables, now, nextId>>

(***************************************************************************)
(* The profile and project routes of the backend add the rows that the    *)
(* deletion cascade removes, with ids in increasing order.  A row cannot   *)
(* be added under a parent that a running transaction has deleted.         *)
(***************************************************************************)
Locked(field, id) == \E s \in Slots : id \in requests[s].tx[field]

CreateProfile ==
    /\ reply = NoReply
    /\ \E u \in users :
         /\ ~\E p \in profiles : p.userId = u.id
         /\ profiles' = profiles \cup {[id |-> u.id, userId |-> u.id]}
    /\ UNCHANGED <<users, projects, projectAverages, now, requests, nextId, reply>>

CreateProject ==
    /\ reply = NoReply
    /\ \E u \in users, k \in 1..MaxProjects :
         LET id == (u.id - 1) * MaxProjects + k
         IN  /\ ~\E p \in projects : p.id = id
             /\ k > 1 => \E p \in projects : p.id = id - 1
             /\ projects' = projects \cup {[id |-> id, userId |-> u.id]}
    /\ UNCHANGED <<users, profiles, projectAverages, now, requests, nextId, reply>>

CreateProjectAverage ==
    /\ reply = NoReply
    /\ \E p \in profiles, k \in 1..MaxAverages :
         LET id == (p.id - 1) * MaxAverages + k
         IN  /\ ~Locked("profiles", p.id)
             /\ ~\E a \in projectAverages : a.id = id
             /\ k > 1 => \E a \in projectAverages : a.id = id - 1
             /\ projectAverages' = projectAverages \cup {[id |-> id, profileId |-> p.id]}
    /\ UNCHANGED <<users, profiles, projects, now, requests, nextId, reply>>

\* the continuations of the requests in flight
Step(s) ==
    \/ SignupCreate(s) \/ SignupSend(s)
    \/ VerifyOtpUpdate(s)
    \/ ForgotPasswordUpdate(s) \/ ForgotPasswordSend(s)
    \/ ResetPasswordUpdate(s)
    \/ DeleteProjectAverages(s) \/ DeleteProjects(s)
    \/ DeleteProfile(s) \/ DeleteUser(s)
    \/ GoogleSignupFind(s) \/ GoogleSignupCreate(s)
    \/ StorageFault(s)

\* the arrival of a request
Start(s) ==
    \/ Signup(s) \/ VerifyOtp(s) \/ Login(s)
    \/ ForgotPassword(s) \/ ResetPassword(s)
    \/ DeleteAccount(s) \/ Logout(s) \/ GoogleSignup(s)

Quiet == \A s \in Slots : requests[s].pc = "idle"

(***************************************************************************)
(* Spec: the server handles one request at a time, while the clock and the *)
(* profile and project routes run freely.                                  *)
(* SpecConcurrent: two requests are in flight and their handlers           *)
(* interleave at every await, at one instant of the clock; the profile     *)
(* route runs too, so that the deletion cascade has a profile to remove.   *)
(***************************************************************************)
Next ==
    \/ Tick
    \/ Respond
    \/ CreateProfile
    \/ CreateProject
    \/ CreateProjectAverage
    \/ \E s \in Slots :
         \/ Quiet /\ Signup(s)
         \/ Quiet /\ VerifyOtp(s)
         \/ Quiet /\ Login(s)
         \/ Quiet /\ ForgotPassword(s)
         \/ Quiet /\ ResetPassword(s)
         \/ Quiet /\ DeleteAccount(s)
         \/ Quiet /\ Logout(s)
         \/ Quiet /\ GoogleSignup(s)
         \/ Step(s)

Spec == Init /\ [][Next]_vars

NextConcurrent ==
    \/ Respond
    \/ CreateProfile
    \/ \E s \in Slots : Start(s) \/ Step(s)

SpecConcurrent == Init /\ [][NextConcurrent]_vars

(***************************************************************************)
(* The failures of the specification, as the responses of the router.     *)
(***************************************************************************)
ValidationError == Res(400, PasswordPolicyMessage)
ConflictError == Res(400, "Email already registered")
NotFoundError == Res(404, "User not found")
InvalidOtpError == Res(400, "Invalid or expired OTP")
UnverifiedError == Res(400, "Please verify your email first")
InvalidCredentialError == Res(400, "Invalid password")

Answered(op) == reply # NoReply /\ reply.req.op = op

\* the request that arrives in a step, Idle when none does
Arrival ==
    IF \E s \in Slots : requests[s].pc = "idle" /\ requests'[s].pc # "idle"
    THEN requests'[CHOOSE s \in Slots : requests[s].pc = "idle" /\ requests'[s].pc # "idle"]
    ELSE IF reply = NoReply /\ reply' # NoReply /\ reply'.req.pc = "idle"
    THEN reply'.req
    ELSE Idle

Account(email) == {u \in users : u.email = email}

(***************************************************************************)
(* C1: in every reachable state, also with two handlers interleaved, each  *)
(* account has otp and otpExpiry both null or both set.                    *)
(***************************************************************************)
C1_CodeAndExpiryPaired ==
    \A u \in users : u.otp.isNull <=> u.otpExpiry.isNull

\* a forgot-password has written its code while a verify-otp that accepted
\* the previous one is about to clear it
C1_Witness ==
    /\ \E u \in users : ~u.otp.isNull /\ ~u.otpExpiry.isNull
    /\ \E s, t \in Slots :
         /\ requests[s].op = "forgot-password" /\ requests[s].pc = "sendEmail"
         /\ requests[t].op = "verify-otp" /\ requests[t].pc = "update"

(***************************************************************************)
(* C2: login for an account with isVerified = false answers                *)
(* UnverifiedError and issues no token, whatever the password, the correct *)
(* one included.                                                           *)
(***************************************************************************)
C2_UnverifiedNeverLogsIn ==
    Answered("login") =>
      \A u \in Account(reply.req.email) :
        ~u.isVerified => reply.res = UnverifiedError /\ reply.res.token = NoToken

C2_Witness ==
    /\ Answered("login")
    /\ \E u \in Account(reply.req.email) :
         ~u.isVerified /\ bcryptCompare(reply.req.password, u.password)

(***************************************************************************)
(* C3: right after a successful verify-otp the account is verified, its    *)
(* otp and otpExpiry are null, and a login with the password whose hash is *)
(* stored succeeds with a token.                                           *)
(***************************************************************************)
C3_VerifiedThenLogin ==
    (Answered("verify-otp") /\ reply.res.status = 200) =>
      /\ Account(reply.req.email) # {}
      /\ reply.res.token # NoToken
      /\ \A u \in Account(reply.req.email) :
           /\ u.isVerified
           /\ u.otp = JsNull
           /\ u.otpExpiry = DateNull
           /\ \A p \in Passwords :
                bcryptCompare(p, u.password) =>
                  /\ LoginResult(findUnique(reply.req.email), p).status = 200
                  /\ LoginResult(findUnique(reply.req.email), p).token
                       = jwtSign(u.id, "240h")

C3_Witness ==
    /\ Answered("verify-otp")
    /\ reply.res.status = 200
    /\ \E u \in Account(reply.req.email) : bcryptCompare(PwGood, u.password)

(***************************************************************************)
(* C4: verify-otp and reset-password called with the stored code later     *)
(* than otpExpiry answer InvalidOtpError, the very answer given to a code  *)
(* that does not match, and leave the account as it was.                   *)
(***************************************************************************)
C4_ExpiredCodeRejected ==
    [][LET q == Arrival
       IN  (/\ q.op \in {"verify-otp", "reset-password"}
            /\ q.op = "reset-password" => validatePassword(q.password))
           => \A u \in Account(q.email) :
                (u.otp # q.otp \/ now > ToNumber(u.otpExpiry))
                => /\ reply' # NoReply
                   /\ reply'.res = InvalidOtpError
                   /\ tables' = tables
                   /\ requests' = requests]_vars

\* a code equal to the stored one was refused
C4_Witness ==
    /\ reply # NoReply
    /\ reply.req.op \in {"verify-otp", "reset-password"}
    /\ reply.res = InvalidOtpError
    /\ \E u \in Account(reply.req.email) :
         /\ ~u.otp.isNull
         /\ u.otp = reply.req.otp
         /\ now > u.otpExpiry.ms

(***************************************************************************)
(* C5: signup and reset-password with a password that fails the policy     *)
(* answer ValidationError and change nothing, whatever the email and the   *)
(* code; no code is generated and no mail is handed to the transport.      *)
(***************************************************************************)
\* the policy as the specification words it: the four classes and the length
MeetsPolicy(password) ==
    /\ \E i \in DOMAIN password : password[i] \in Lower
    /\ \E i \in DOMAIN password : password[i] \in Upper
    /\ \E i \in DOMAIN password : password[i] \in Digit
    /\ \E i \in DOMAIN password : password[i] \in Symbol
    /\ Len(password) >= 6

C5_WeakPasswordRejected ==
    [][LET q == Arrival
       IN  (q.op \in {"signup", "reset-password"} /\ ~MeetsPolicy(q.password))
           => /\ reply' # NoReply
              /\ reply'.res = ValidationError
              /\ reply'.req.genOtp = JsNull
              /\ tables' = tables
              /\ nextId' = nextId
              /\ requests' = requests]_vars

\* refused although the account exists and the code is the stored one
C5_Witness ==
    /\ Answered("reset-password")
    /\ reply.res = ValidationError
    /\ \E u \in Account(reply.req.email) :
         ~u.otp.isNull /\ u.otp = reply.req.otp /\ now <= u.otpExpiry.ms

(***************************************************************************)
(* C6: delete-account is all or nothing.  A step of the handler changes    *)
(* the tables only when it answers success, and then the user and every    *)
(* projectAverage, project and profile of the user are gone; every other   *)
(* step, a failing one included, leaves all four tables as they are.       *)
(***************************************************************************)
DeleteSucceeded == Res(200, "Account deleted successfully")

C6_DeleteAllOrNothing ==
    [][\A s \in Slots :
         (requests[s].op = "delete-account" /\ requests'[s] # requests[s])
         => /\ tables' # tables => reply'.res = DeleteSucceeded
            /\ reply'.res = DeleteSucceeded =>
                 /\ \A u \in users' : u.id # requests[s].user.id
                 /\ \A x \in profiles' : x.userId # requests[s].user.id
                 /\ \A x \in projects' : x.userId # requests[s].user.id
                 /\ \A a \in projectAverages' :
                      \E x \in profiles' : x.id = a.profileId]_vars

\* the transaction failed after staging the averages and the projects, and
\* all of them are still in the tables
C6_Witness ==
    /\ Answered("delete-account")
    /\ reply.res.status = 500
    /\ reply.req.tx.projectAverages # {}
    /\ reply.req.tx.projects # {}
    /\ \A id \in reply.req.tx.projectAverages : \E a \in projectAverages : a.id = id
    /\ \A id \in reply.req.tx.projects : \E x \in projects : x.id = id
    /\ \E u \in users : u.id = reply.req.user.id

(***************************************************************************)
(* C7: there is at most one account per email, and a signup for an email   *)
(* that has an account answers ConflictError and leaves that account       *)
(* unchanged, also when two signups, or a signup and a google-signup, for  *)
(* the email are interleaved.                                              *)
(***************************************************************************)
AtMostOneAccountPerEmail ==
    \A u, v \in users : u.email = v.email => u = v

C7_SignupConflict ==
    /\ AtMostOneAccountPerEmail
    /\ (/\ Answered("signup")
        /\ validatePassword(reply.req.password)
        /\ reply.req.pc # "sendEmail"
        /\ reply.res.error # "DB"
        /\ Account(reply.req.email) # {})
       => reply.res = ConflictError

(***************************************************************************)
(* C8: two google-signup calls for one email create one account.  The call *)
(* that finds no account creates it verified and with an empty password;   *)
(* the call that finds the account creates nothing, changes none of its    *)
(* fields and answers with the id, email, firstName and lastName stored.   *)
(***************************************************************************)
C8_GoogleSignupTwice ==
    [][/\ AtMostOneAccountPerEmail'
       /\ \A s \in Slots :
            (/\ At(s, "google-signup", "findUnique")
             /\ requests'[s] # requests[s]
             /\ reply'.res.error # "DB"
             /\ Account(requests[s].email) # {})
            => /\ tables' = tables
               /\ nextId' = nextId
               /\ \E u \in Account(requests[s].email) :
                    reply'.res = [Res(200, "User already exists") EXCEPT
                                    !.token = jwtSign(u.id, "24h"),
                                    !.user = Ident(u)]
       /\ \A s \in Slots :
            (At(s, "google-signup", "create") /\ users' # users)
            => \E u \in users' :
                 /\ users' = users \cup {u}
                 /\ u.email = requests[s].email
                 /\ u.isVerified
                 /\ u.password = <<>>
                 /\ reply'.res.user = Ident(u)]_vars

\* the second call carries other names than the first and gets the first's
C8_Witness ==
    /\ Answered("google-signup")
    /\ reply.res.status = 200
    /\ reply.req.user.password = <<>>
    /\ reply.req.firstName # reply.res.user.firstName

(***************************************************************************)
(* C9: login for an account whose password is empty answers                *)
(* InvalidCredentialError and issues no token, whatever the password, the  *)
(* empty string included.                                                  *)
(***************************************************************************)
C9_FederatedNeverLogsIn ==
    Answered("login") =>
      \A u \in Account(reply.req.email) :
        u.password = <<>> =>
          reply.res = InvalidCredentialError /\ reply.res.token = NoToken

C9_Witness ==
    /\ Answered("login")
    /\ reply.req.password = PwEmpty
    /\ \E u \in Account(reply.req.email) : u.password = <<>>

(***************************************************************************)
(* C10: an operation other than signup that answers a failure has left the *)
(* store as it was before the call; a forgot-password whose mail fails     *)
(* leaves otp and otpExpiry as they were.                                  *)
(***************************************************************************)
C10_FailureLeavesStore ==
    [][(/\ reply = NoReply
        /\ reply' # NoReply
        /\ reply'.req.op \notin {"signup", "none"}
        /\ reply'.res.status >= 400)
       => /\ tables' = tables
          /\ (reply'.req.op = "forgot-password" /\ reply'.req.pc = "sendEmail")
             => \A u \in users' :
                  u.id = reply'.req.user.id
                  => /\ u.otp = reply'.req.user.otp
                     /\ u.otpExpiry = reply'.req.user.otpExpiry]_vars

(***************************************************************************)
(* C11: google-signup answers InvalidAssertionError, which is not the      *)
(* generic 500 of a collaborator fault, both when verifyIdToken rejects    *)
(* the token and when the payload has no email; no account is created or   *)
(* changed and no token is issued.                                         *)
(***************************************************************************)
InvalidAssertionError == Res(400, "Invalid Google token or missing email")

C11_InvalidAssertionTyped ==
    [][(/\ reply = NoReply
        /\ Arrival.op = "google-signup"
        /\ Arrival.pc = "idle")
       => /\ reply'.res = InvalidAssertionError
          /\ reply'.res.status # 500
          /\ reply'.res.token = NoToken
          /\ tables' = tables]_vars

(***************************************************************************)
(* C12: the codes that signup and forgot-password write to otp are the     *)
(* strings of six decimal digits.  RandomDraws holds the least and the     *)
(* greatest outcome of the draw, so the codes issued on them are the ends  *)
(* of the range of codes.                                                  *)
(***************************************************************************)
\* n written with six decimal digits, with leading zeros
SixDigits(n) == [i \in 1 .. 6 |-> DigitChar((n \div 10 ^ (6 - i)) % 10)]

IsSixDigits(otp) ==
    /\ Len(otp.s) = 6
    /\ \A i \in 1 .. 6 : otp.s[i] \in Digit

\* the codes generated and not yet written, and the codes in the store
PendingOtps ==
    {requests[s].genOtp : s \in Slots} \cup {u.otp : u \in users}

\* as claimed: the range is 000000 to 999999
C12_OtpRange ==
    \A otp \in PendingOtps :
      ~otp.isNull =>
        /\ IsSixDigits(otp)
        /\ otp \in {JsStr(SixDigits(0)), JsStr(SixDigits(999999))}

\* amended: the range is 100000 to 999999, so that no code starts with 0
C12_OtpRangeFromOtpBase ==
    \A otp \in PendingOtps :
      ~otp.isNull =>
        /\ IsSixDigits(otp)
        /\ otp.s[1] # "0"
        /\ otp \in {JsStr(SixDigits(100000)), JsStr(SixDigits(999999))}

\* forgot-password has replaced the greatest code by the least one
C12_Witness ==
    /\ Answered("forgot-password")
    /\ reply.res.status = 200
    /\ reply.req.user.otp = JsStr(SixDigits(999999))
    /\ \E u \in Account(reply.req.email) : u.otp = JsStr(SixDigits(100000))

(***************************************************************************)
(* C13: when sendEmail fails in signup, the handler answers a failure and  *)
(* the row it created stays in the store, unverified and with the          *)
(* generated otp and otpExpiry; a signup that then arrives for the email   *)
(* answers ConflictError.                                                  *)
(***************************************************************************)
C13_SignupMailFailureKeepsAccount ==
    [][/\ \A s \in Slots :
            (/\ At(s, "signup", "sendEmail")
             /\ requests'[s] # requests[s]
             /\ reply'.res.error = "SMTP")
            => /\ reply'.res.status >= 400
               /\ \E u \in users' :
                    /\ u.email = requests[s].email
                    /\ ~u.isVerified
                    /\ ~u.otp.isNull /\ u.otp = requests[s].genOtp
                    /\ ~u.otpExpiry.isNull /\ u.otpExpiry = requests[s].genExpiry
       /\ (/\ reply = NoReply
           /\ Arrival.op = "signup"
           /\ validatePassword(Arrival.password)
           /\ Account(Arrival.email) # {})
          => /\ reply'.res = ConflictError
             /\ tables' = tables]_vars

\* the mail failed and the unverified row is in the store
C13_Witness ==
    /\ Answered("signup")
    /\ reply.res.error = "SMTP"
    /\ \E u \in Account(reply.req.email) :
         ~u.isVerified /\ u.otp = reply.req.genOtp

(***************************************************************************)
(* C14: the update of forgot-password replaces otp and otpExpiry by the    *)
(* code and expiry it generated, and verify-otp and reset-password go on   *)
(* only with the code now in the row: a code issued before, when it        *)
(* differs, answers InvalidOtpError also inside its own ten minutes.       *)
(***************************************************************************)
C14_ForgotPasswordReplacesCode ==
    [][/\ \A s \in Slots :
            (At(s, "forgot-password", "update") /\ requests'[s].pc = "sendEmail")
            => \E u \in users' :
                 /\ u.email = requests[s].email
                 /\ u.otp = requests[s].genOtp
                 /\ u.otpExpiry = requests[s].genExpiry
                 /\ users' \ {u} = users \ Account(requests[s].email)
       /\ (/\ reply = NoReply
           /\ Arrival.op \in {"verify-otp", "reset-password"}
           /\ Arrival.op = "reset-password" => validatePassword(Arrival.password)
           /\ \E u \in Account(Arrival.email) : u.otp # Arrival.otp)
          => /\ reply'.res = InvalidOtpError
             /\ tables' = tables]_vars

\* forgot-password has replaced a code that differs and was still in its
\* ten minutes
C14_Witness ==
    /\ Answered("forgot-password")
    /\ reply.res.status = 200
    /\ ~reply.req.user.otp.isNull
    /\ now <= reply.req.user.otpExpiry.ms
    /\ \E u \in Account(reply.req.email) :
         /\ u.id = reply.req.user.id
         /\ u.otp = reply.req.genOtp
         /\ u.otp # reply.req.user.otp

(***************************************************************************)
(* C15: an issued code is consumed at most once, also when verify-otp and  *)
(* reset-password calls for one account are interleaved: a call succeeds   *)
(* only while the row still holds a code, so that no second call succeeds  *)
(* on a code that a first one has consumed.                                *)
(***************************************************************************)
C15_CodeConsumedOnce ==
    [][\A s \in Slots :
         (/\ reply = NoReply
          /\ requests[s].op \in {"verify-otp", "reset-password"}
          /\ requests[s].pc = "update"
          /\ requests'[s] # requests[s]
          /\ reply'.res.status = 200)
         => \E u \in Account(requests[s].email) : ~u.otp.isNull]_vars

(***************************************************************************)
(* C16: a token that verify-otp, login or google-signup puts in a response *)
(* names a user that is in the store with isVerified true at that moment;  *)
(* no token names an unverified user.                                      *)
(***************************************************************************)
C16_TokenOnlyForVerified ==
    (reply # NoReply /\ reply.res.token # NoToken)
    => \E u \in users : u.id = reply.res.token.userId /\ u.isVerified

(***************************************************************************)
(* C17: a code is bound to the flow that issued it.  While the mail of a   *)
(* forgot-password is on its way, the code in the row is the one that      *)
(* forgot-password issued, and a verify-otp that presents it does not go   *)
(* on to verify the account.                                               *)
(***************************************************************************)
\* the row of the account holds the code that the forgot-password in flight
\* in slot t has written
IssuedByForgotPassword(t, u) ==
    /\ requests[t].op = "forgot-password"
    /\ requests[t].pc = "sendEmail"
    /\ u.id = requests[t].user.id
    /\ u.otp = requests[t].genOtp
    /\ u.otpExpiry = requests[t].genExpiry

C17_CodesBoundToFlow ==
    [][(/\ reply = NoReply
        /\ Arrival.op = "verify-otp"
        /\ \E t \in Slots : \E u \in Account(Arrival.email) :
             IssuedByForgotPassword(t, u) /\ Arrival.otp = u.otp)
       => /\ Arrival.pc # "update"
          /\ reply'.res = InvalidOtpError]_vars

(***************************************************************************)
(* C18: the account that google-signup creates has an empty password and   *)
(* keeps it for as long as its row exists, so that no login for it ever    *)
(* succeeds.  Only google-signup creates rows with an empty password.      *)
(***************************************************************************)
C18_FederatedStaysPasswordless ==
    [][\A u \in users : \A v \in users' :
         (u.id = v.id /\ u.password = <<>>) => v.password = <<>>]_vars

(***************************************************************************)
(* C19: isVerified never goes back.  A row that has isVerified true keeps  *)
(* it for as long as the row exists, and a row's isVerified turns from     *)
(* false to true only in the step in which verify-otp succeeds.            *)
(***************************************************************************)
C19_IsVerifiedMonotonic ==
    [][\A u \in users : \A v \in users' :
         u.id = v.id
         => /\ u.isVerified => v.isVerified
            /\ (~u.isVerified /\ v.isVerified)
               => /\ reply'.req.op = "verify-otp"
                  /\ reply'.res.status = 200]_vars

\* forgot-password has written a code to a verified account made by signup
C19_Witness ==
    /\ Answered("forgot-password")
    /\ reply.res.status = 200
    /\ \E u \in Account(reply.req.email) :
         u.isVerified /\ u.password # <<>> /\ u.otp = reply.req.genOtp

(***************************************************************************)
(* C20: signup and reset-password answer ValidationError exactly for the   *)
(* passwords that lack a lowercase letter, an uppercase letter, a digit, a *)
(* symbol of @$!%*?& or the length of 6.                                   *)
(***************************************************************************)
\* as claimed: the five requirements decide, whatever else the password holds
C20_PasswordPolicyExact ==
    (reply # NoReply /\ reply.req.op \in {"signup", "reset-password"})
    => (reply.res = ValidationError <=> ~MeetsPolicy(reply.req.password))

\* amended: every character must also be a letter, a digit or one of the
\* symbols
OnlyAllowedCharacters(password) ==
    \A i \in DOMAIN password :
      password[i] \in Lower \cup Upper \cup Digit \cup Symbol

C20_PasswordPolicyAndAlphabet ==
    (reply # NoReply /\ reply.req.op \in {"signup", "reset-password"})
    => (reply.res = ValidationError
          <=> ~(MeetsPolicy(reply.req.password)
                  /\ OnlyAllowedCharacters(reply.req.password)))

\* a password with all five requirements and a # is refused
C20_Witness ==
    /\ Answered("signup")
    /\ reply.req.password = PwForeign
    /\ MeetsPolicy(reply.req.password)
    /\ reply.res = ValidationError

====
